---- MODULE Spec2Model ----
(***************************************************************************)
(* The rule-based atom typer of mosdef_gomc/tools/parameterize/atomtyper.py *)
(* as a state machine: the module-level registries, one find_atomtypes     *)
(* invocation stepped through its phases (catalogue load, build_rule_map,  *)
(* sanitize, prepare, the round loop, the resolution loop), and the rule   *)
(* decorators as an evaluator over a rule's decorator stack.               *)
(*                                                                         *)
(* Rule identifiers are the decimal strings of the opls_<n> function names;*)
(* they are represented by the number n (str() is injective on them), and  *)
(* the places where the string order matters (the sort in the effect       *)
(* decorators' constructors) use the order of the decimal strings.         *)
(***************************************************************************)
EXTENDS Integers, Sequences, FiniteSets, TLC

\* ------------------------------------------------------------------ bounds
NAtoms == 2
MaxPermIds == 3

\* --------------------------------------------------------------- constants
max_iter == 10
NONE_COUNT == -1

\* The atoms of the compound, numbered in the order in which
\* compound.yield_atoms() yields them.
Atoms == 1..NAtoms
atom_order == [i \in 1..NAtoms |-> i]
PORT == "G"
NONE_ELEMENT == "None"
Kinds == {"C", "H", PORT}

\* ------------------------------------------------------------------ helpers
Range(s) == {s[i] : i \in DOMAIN s}

Perms(S) == {p \in [1..Cardinality(S) -> S] : Range(p) = S}

RECURSIVE SeqSum(_)
SeqSum(s) == IF s = <<>> THEN 0 ELSE Head(s) + SeqSum(Tail(s))

\* str(n): the decimal digits of n, most significant first.
RECURSIVE StrOf(_)
StrOf(n) == IF n < 10 THEN <<n>> ELSE Append(StrOf(n \div 10), n % 10)

\* Python's order on strings, on the digit sequences.
RECURSIVE StrLess(_, _)
StrLess(s, t) ==
    IF t = <<>> THEN FALSE
    ELSE IF s = <<>> THEN TRUE
    ELSE IF Head(s) # Head(t) THEN Head(s) < Head(t)
    ELSE StrLess(Tail(s), Tail(t))

\* list(map(str, rule_numbers)) followed by .sort()
RECURSIVE SortedStr(_)
SortedStr(S) ==
    IF S = {} THEN <<>>
    ELSE LET m == CHOOSE x \in S : \A y \in S \ {x} : StrLess(StrOf(x), StrOf(y))
         IN  <<m>> \o SortedStr(S \ {m})

\* mbuild.orderedset.OrderedSet: insertion-ordered, add() ignores a member.
OsAdd(s, x) == IF x \in Range(s) THEN s ELSE Append(s, x)

RECURSIVE OsAddAll(_, _)
OsAddAll(s, xs) == IF xs = <<>> THEN s ELSE OsAddAll(OsAdd(s, Head(xs)), Tail(xs))

OsDiff(s, t) == SelectSeq(s, LAMBDA x : x \notin Range(t))

\* ------------------------------------------------------- rule decorators
\* A decorator object, as the constructors leave it.
Element(k) == [t |-> "Element", k |-> k, n |-> 0, ids |-> <<>>]
NeighborCount(n) == [t |-> "NeighborCount", k |-> "", n |-> n, ids |-> <<>>]
NeighborsExactly(k, n) == [t |-> "NeighborsExactly", k |-> k, n |-> n, ids |-> <<>>]
NeighborsAtLeast(k, n) == [t |-> "NeighborsAtLeast", k |-> k, n |-> n, ids |-> <<>>]
NeighborsAtMost(k, n) == [t |-> "NeighborsAtMost", k |-> k, n |-> n, ids |-> <<>>]
Whitelist(S) == [t |-> "Whitelist", k |-> "", n |-> 0, ids |-> SortedStr(S)]
Blacklist(S) == [t |-> "Blacklist", k |-> "", n |-> 0, ids |-> SortedStr(S)]

\* The body of a rule function of the catalogue: it returns True, or the
\* result of check_atom on the atom itself or on one of its neighbours.
BodyTrue == [b |-> "true", ids |-> {}]
BodySelf(S) == [b |-> "self", ids |-> S]
BodyNbr(S) == [b |-> "nbr", ids |-> S]

\* A rule function: its decorator stack, outermost first, and its body.
RuleFn(decs, body) == [decs |-> decs, body |-> body]

\* get_decorator_objects_by_type(rule, RuleDecorator): outermost first.
get_decorator_objects_by_type(rule) == rule.decs

\* ------------------------------------------------- the rule catalogue
\* The opls_* functions of the force-field module, keyed by their number.
\* The rule bodies are supplied by the catalogue; the catalogues below cover
\* plain rules, competing rules with blacklists, rules that query a
\* neighbour's whitelist, effects that name another rule, and a chain that
\* needs one round per rule.
CatMethane ==
    (1 :> RuleFn(<<Element("C"), NeighborCount(1), NeighborsExactly("H", 1),
                   Whitelist({1})>>, BodyTrue))
 @@ (2 :> RuleFn(<<Element("H"), NeighborCount(1), NeighborsExactly("C", 1),
                   Whitelist({2})>>, BodyTrue))

CatCompete ==
    (1 :> RuleFn(<<Element("C"), NeighborCount(1), Whitelist({1})>>, BodyTrue))
 @@ (2 :> RuleFn(<<Element("C"), NeighborCount(1), NeighborsAtLeast("H", 1),
                   Whitelist({2}), Blacklist({1})>>, BodyTrue))
 @@ (3 :> RuleFn(<<Whitelist({3}), Element("H"), NeighborCount(1)>>, BodyNbr({2})))

CatCross ==
    (1 :> RuleFn(<<Element("C"), NeighborCount(0), Whitelist({2, 3})>>, BodyTrue))
 @@ (2 :> RuleFn(<<Element("C"), NeighborCount(0), Whitelist({2}),
                   Blacklist({3})>>, BodyTrue))
 @@ (3 :> RuleFn(<<Element("H"), NeighborCount(1), Whitelist({3})>>, BodyTrue))

CatBlackLate ==
    (1 :> RuleFn(<<Element("C"), NeighborCount(0), Whitelist({1})>>, BodyTrue))
 @@ (2 :> RuleFn(<<Element("C"), NeighborCount(0), Blacklist({1})>>, BodySelf({1})))

CatNoBlack ==
    (1 :> RuleFn(<<Element("C"), NeighborCount(1), Whitelist({1})>>, BodyTrue))
 @@ (2 :> RuleFn(<<Element("C"), NeighborCount(1), Whitelist({2})>>, BodyTrue))

CatSplit ==
    (1 :> RuleFn(<<Element("C"), NeighborCount(0), Whitelist({1}),
                   Blacklist({3})>>, BodyTrue))
 @@ (2 :> RuleFn(<<Element("C"), NeighborCount(0), Whitelist({2}),
                   Blacklist({4})>>, BodyTrue))
 @@ (3 :> RuleFn(<<Element("H"), NeighborCount(1), Whitelist({3})>>, BodyTrue))
 @@ (4 :> RuleFn(<<Element("H"), NeighborCount(1), Whitelist({4})>>, BodyNbr({3})))

\* Rule i whitelists i once the atom itself is whitelisted for i - 1.
CatChain(n) ==
    [i \in 1..n |->
        RuleFn(<<Element("C"), NeighborCount(0), Whitelist({i})>>,
               IF i = 1 THEN BodyTrue ELSE BodySelf({i - 1}))]

\* Two rules for the same atoms that blacklist each other, beside two rules
\* for other atoms that blacklist nothing.
CatCycle ==
    (1 :> RuleFn(<<Element("C"), NeighborCount(0), Whitelist({1}),
                   Blacklist({2})>>, BodyTrue))
 @@ (2 :> RuleFn(<<Element("C"), NeighborCount(0), Whitelist({2}),
                   Blacklist({1})>>, BodyTrue))
 @@ (3 :> RuleFn(<<Element("H"), NeighborCount(1), Whitelist({3})>>, BodyTrue))
 @@ (4 :> RuleFn(<<Element("H"), NeighborCount(1), Whitelist({4})>>, BodyTrue))

\* Rules 1 and 3 give way to the more general rule 2.
CatSinks ==
    (1 :> RuleFn(<<Element("C"), NeighborCount(0), Whitelist({1}),
                   Blacklist({2})>>, BodySelf({2})))
 @@ (2 :> RuleFn(<<Element("C"), NeighborCount(0), Whitelist({2})>>, BodyTrue))
 @@ (3 :> RuleFn(<<Element("C"), NeighborCount(0), Whitelist({3}),
                   Blacklist({2})>>, BodySelf({2})))

\* The same, with a fourth rule for the same atoms that blacklists nothing.
CatSinksMore ==
    CatSinks
 @@ (4 :> RuleFn(<<Element("C"), NeighborCount(0), Whitelist({4})>>, BodyTrue))

\* A rule without an Element decorator, a rule without a NeighborCount
\* decorator, and a rule with both.
CatNoGuards ==
    (1 :> RuleFn(<<NeighborCount(1), Whitelist({1})>>, BodyTrue))
 @@ (2 :> RuleFn(<<Element("C"), Whitelist({2})>>, BodyTrue))
 @@ (3 :> RuleFn(<<Element("C"), NeighborCount(1), Whitelist({3})>>, BodyTrue))

\* Effects that name ids no rule of the catalogue has.
CatDangling ==
    (1 :> RuleFn(<<Element("C"), NeighborCount(0), Whitelist({1}),
                   Blacklist({7})>>, BodyTrue))
 @@ (2 :> RuleFn(<<Element("H"), NeighborCount(1), Whitelist({2, 8})>>, BodyTrue))

\* Composition guards that allow no neighbour of a kind, and a stack whose
\* effects stand outside some of its guards.
CatAtMost ==
    (1 :> RuleFn(<<Element("C"), NeighborCount(1), NeighborsAtMost("H", 0),
                   Whitelist({1})>>, BodyTrue))
 @@ (2 :> RuleFn(<<Whitelist({2}), Element("C"), Blacklist({1}), NeighborCount(1),
                   NeighborsExactly("H", 1)>>, BodyTrue))
 @@ (3 :> RuleFn(<<Element("C"), NeighborCount(0), NeighborsExactly("H", 0),
                   Whitelist({3})>>, BodyTrue))

\* A rule with two Element decorators and a rule with two NeighborCount
\* decorators, beside a rule with one of each.
CatDuplicate ==
    (1 :> RuleFn(<<Element("C"), Element("H"), NeighborCount(1),
                   Whitelist({1})>>, BodyTrue))
 @@ (2 :> RuleFn(<<Element("H"), NeighborCount(1), Whitelist({2}),
                   Blacklist({1})>>, BodyTrue))
 @@ (3 :> RuleFn(<<Element("C"), NeighborCount(0), NeighborCount(1),
                   Whitelist({3})>>, BodyTrue))

Catalogues ==
    {CatMethane, CatCompete, CatCross, CatBlackLate, CatNoBlack, CatSplit,
     CatChain(max_iter - 1), CatChain(max_iter), CatCycle, CatSinks,
     CatSinksMore, CatNoGuards, CatDangling, CatAtMost, CatDuplicate}

\* The iteration orders of the dict rule_number_to_rule (hash order of the
\* keys): any order for a small catalogue, the two monotone ones otherwise.
DictOrders(cat) ==
    LET ids == DOMAIN cat
        n == Cardinality(ids)
    IN  IF n <= MaxPermIds THEN Perms(ids)
        ELSE {[i \in 1..n |-> i], [i \in 1..n |-> n + 1 - i]}

\* The forcefield argument: the one name find_atomtypes knows, and another.
OPLS_AA == "OPLS-AA"
ForceFields == {OPLS_AA, "GAFF"}

\* The bonded structures: a kind per atom and a set of bonds.
AllBonds == SUBSET {p \in SUBSET Atoms : Cardinality(p) = 2}

VARIABLES
    kind,                 \* atom.kind, per atom of the compound
    bonds,                \* the compound's bonds, unordered pairs of atoms
    module_rules,         \* the opls_* functions of the force-field module
    dict_order,           \* iteration order of rule_number_to_rule
    debug,                \* find_atomtypes' debug argument
    forcefield,           \* find_atomtypes' forcefield argument
    calls,                \* history: calls of find_atomtypes so far
    rule_number_to_rule,  \* module global: id -> rule function
    rule_map,             \* module global: element -> neighbor count -> ids
    neighbor_types_map,   \* module global: atom -> tally of neighbour kinds
    whitelist,            \* atom.extras['whitelist'], where allocated
    blacklist,            \* atom.extras['blacklist'], where allocated
    atomtype,             \* atom.extras['atomtype'], where assigned
    log,                  \* the warn() calls so far, in order
    flags,                \* the draw_rule_graph calls so far
    todo,                 \* sanitize: the rule_matches keys still to visit
    pc,                   \* position in find_atomtypes
    iter_cnt,             \* rounds started so far (the for loop's counter)
    ai,                   \* position in the current loop over atoms
    ri,                   \* position in the current bucket
    old_len,
    new_len,
    round_start,          \* history: the lists as the current round began
    rounds_changed,       \* history: rounds that changed some list
    applied,              \* history: <<atom, rule>> pairs given to run_rule
    succeeded,            \* history: <<atom, rule>> pairs whose rule returned True
    tally_used,           \* history: the tallies the composition guards read
    graphs                \* history: the graph G sanitize built, per group

vars == <<kind, bonds, module_rules, dict_order, debug, forcefield, calls,
          rule_number_to_rule, rule_map, neighbor_types_map, whitelist,
          blacklist, atomtype, log, flags, todo, pc, iter_cnt, ai, ri,
          old_len, new_len, round_start, rounds_changed, applied, succeeded,
          tally_used, graphs>>

EmptyMap == [x \in {} |-> 0]

\* dict[key] = value
Put(f, key, value) ==
    [x \in DOMAIN f \cup {key} |-> IF x = key THEN value ELSE f[x]]

\* ------------------------------------------------------ atoms and bonds
\* Faulty variant of IsPort: no atom is taken for a port.
IsPortNever(a) == FALSE

\* atom.neighbors: the atoms bonded to a.
Neighbors(a) == {b \in Atoms : {a, b} \in bonds}

IsPort(a) == kind[a] = PORT

\* compound.atoms: the real atoms, in traversal order.
RealAtoms == SelectSeq(atom_order, LAMBDA a : kind[a] # PORT)

\* neighbor_types(atom): the cached tally, computed from the bonds on a miss.
\* A defaultdict: only the kinds counted at least once are keys.
Tally(a) ==
    LET ks == {kind[b] : b \in Neighbors(a)}
    IN  [k \in ks |-> Cardinality({b \in Neighbors(a) : kind[b] = k})]

neighbor_types(ntm, a) == IF a \in DOMAIN ntm THEN ntm ELSE Put(ntm, a, Tally(a))

\* check_atom(atom, input_rule_ids): some id is in the atom's whitelist.
check_atom(wl, a, ids) == \E r \in ids : r \in Range(wl[a])

BodyHolds(body, wl, a) ==
    CASE body.b = "true" -> TRUE
      [] body.b = "self" -> check_atom(wl, a, body.ids)
      [] body.b = "nbr"  -> \E b \in Neighbors(a) : check_atom(wl, b, body.ids)

\* ------------------------------------------- applying a decorated rule
\* The state a rule function touches: st.wl, st.bl (the atoms' lists) and
\* st.ntm (neighbor_types_map).
\* Faulty variant of WhitelistAdd: the effect replaces the whitelist by its ids.
WhitelistAssign(wl, a, ids) == [wl EXCEPT ![a] = ids]

\* Faulty variant of WhitelistAdd: the ids enter the whitelist of every atom.
WhitelistAddEveryAtom(wl, a, ids) == [b \in DOMAIN wl |-> OsAddAll(wl[b], ids)]

WhitelistAdd(wl, a, ids) == [wl EXCEPT ![a] = OsAddAll(@, ids)]

\* Faulty variant of BlacklistAdd: the effect replaces the blacklist by its ids.
BlacklistAssign(bl, a, ids) == [bl EXCEPT ![a] = ids]

BlacklistAdd(bl, a, ids) == [bl EXCEPT ![a] = OsAddAll(@, ids)]

\* Faulty variant of CompositionHolds: the guard lets every atom through.
CompositionHoldsAlways(d, tally) == TRUE

\* The guard of a neighbor-composition decorator on a tally.
CompositionHolds(d, tally) ==
    /\ d.k \in DOMAIN tally
    /\ CASE d.t = "NeighborsExactly" -> tally[d.k] = d.n
         [] d.t = "NeighborsAtLeast" -> tally[d.k] >= d.n
         [] d.t = "NeighborsAtMost"  -> tally[d.k] <= d.n

\* wrapped(atom) of decorator i of the stack (i past the stack: the body).
\* The result is [ret, st]: whether the call returned True, and the state after.
RECURSIVE Wrapped(_, _, _, _)
Wrapped(rule, i, a, st) ==
    IF i > Len(rule.decs)
    THEN [ret |-> BodyHolds(rule.body, st.wl, a), st |-> st]
    ELSE
    LET d == rule.decs[i]
        fail == [ret |-> FALSE, st |-> st]
    IN  CASE d.t = "Element" ->
               IF kind[a] = d.k THEN Wrapped(rule, i + 1, a, st) ELSE fail
          [] d.t = "NeighborCount" ->
               IF Cardinality(Neighbors(a)) = d.n
               THEN Wrapped(rule, i + 1, a, st) ELSE fail
          [] d.t \in {"NeighborsExactly", "NeighborsAtLeast", "NeighborsAtMost"} ->
               LET ntm == neighbor_types(st.ntm, a)
                   st1 == [st EXCEPT !.ntm = ntm]
               IN  IF CompositionHolds(d, ntm[a])
                   THEN Wrapped(rule, i + 1, a, st1)
                   ELSE [ret |-> FALSE, st |-> st1]
          [] d.t = "Whitelist" ->
               LET r == Wrapped(rule, i + 1, a, st)
               IN  IF r.ret
                   THEN [ret |-> TRUE,
                         st |-> [r.st EXCEPT !.wl = WhitelistAdd(@, a, d.ids)]]
                   ELSE [ret |-> FALSE, st |-> r.st]
          [] d.t = "Blacklist" ->
               LET r == Wrapped(rule, i + 1, a, st)
               IN  IF r.ret
                   THEN [ret |-> TRUE,
                         st |-> [r.st EXCEPT !.bl = BlacklistAdd(@, a, d.ids)]]
                   ELSE [ret |-> FALSE, st |-> r.st]

\* run_rule(atom, rule_id) on the catalogue rules: the rule function is
\* called unless its id is already in the atom's whitelist.
run_rule(rules, st, a, r) ==
    IF r \in Range(st.wl[a])
    THEN [ret |-> FALSE, st |-> st]
    ELSE Wrapped(rules[r], 1, a, st)

\* Whether the call of decorator i of the stack comes to a
\* neighbor-composition guard, which reads neighbor_types(atom).
RECURSIVE ReachesComposition(_, _, _)
ReachesComposition(rule, i, a) ==
    IF i > Len(rule.decs) THEN FALSE
    ELSE
    LET d == rule.decs[i]
    IN  CASE d.t = "Element" ->
               kind[a] = d.k /\ ReachesComposition(rule, i + 1, a)
          [] d.t = "NeighborCount" ->
               /\ Cardinality(Neighbors(a)) = d.n
               /\ ReachesComposition(rule, i + 1, a)
          [] d.t \in {"NeighborsExactly", "NeighborsAtLeast", "NeighborsAtMost"} ->
               TRUE
          [] OTHER -> ReachesComposition(rule, i + 1, a)

ReadsTally(rules, wl, a, r) ==
    r \notin Range(wl[a]) /\ ReachesComposition(rules[r], 1, a)

\* ------------------------------------------------------- build_rule_map
DecsOfType(rule, t) == SelectSeq(get_decorator_objects_by_type(rule), LAMBDA d : d.t = t)

\* element_type / neighbor_count as the loop over the decorators leaves them:
\* the value of the last decorator of the type, None when there is none.
ElementOf(rule) ==
    LET es == DecsOfType(rule, "Element")
    IN  IF es = <<>> THEN NONE_ELEMENT ELSE es[Len(es)].k

CountOf(rule) ==
    LET cs == DecsOfType(rule, "NeighborCount")
    IN  IF cs = <<>> THEN NONE_COUNT ELSE cs[Len(cs)].n

Warning(w, a, r) == [w |-> w, atom |-> a, rule |-> r]

\* One iteration of build_rule_map's loop, for rule r: the two warnings
\* ("not element_type", "not neighbor_count"), then the append to the bucket.
BuildOne(acc, rules, r) ==
    LET e == ElementOf(rules[r])
        c == CountOf(rules[r])
        l1 == IF e = NONE_ELEMENT \/ e = ""
              THEN Append(acc.log, Warning("no_element_type", 0, r)) ELSE acc.log
        l2 == IF c = NONE_COUNT \/ c = 0
              THEN Append(l1, Warning("no_neighbor_count", 0, r)) ELSE l1
        byCount == IF e \in DOMAIN acc.rm THEN acc.rm[e] ELSE EmptyMap
        bucket == IF c \in DOMAIN byCount THEN byCount[c] ELSE <<>>
    IN  [rm |-> Put(acc.rm, e, Put(byCount, c, Append(bucket, r))), log |-> l2]

RECURSIVE BuildFrom(_, _, _, _)
BuildFrom(acc, rules, order, i) ==
    IF i > Len(order) THEN acc
    ELSE BuildFrom(BuildOne(acc, rules, order[i]), rules, order, i + 1)

\* build_rule_map(): extends the global rule_map by every rule of
\* rule_number_to_rule, in the dict's iteration order.
build_rule_map(rm, lg, rules, order) ==
    BuildFrom([rm |-> rm, log |-> lg], rules, order, 1)

\* ------------------------------------------------------------- sanitize
\* The elements some rule has an Element decorator for.
SupportedElements(rules) ==
    {d.k : d \in UNION {Range(DecsOfType(rules[r], "Element")) : r \in DOMAIN rules}}

\* Faulty variant of ScanRaises: the duplicate-decorator assertions are left out.
ScanRaisesNoneOnly(rules) ==
    \E r \in DOMAIN rules : CountOf(rules[r]) = NONE_COUNT

\* What makes the two scans over the rules raise: the duplicate-decorator
\* assertions, and combinations_with_replacement given None as the length.
ScanRaises(rules) ==
    \E r \in DOMAIN rules :
        \/ Len(DecsOfType(rules[r], "Element")) > 1
        \/ Len(DecsOfType(rules[r], "NeighborCount")) > 1
        \/ CountOf(rules[r]) = NONE_COUNT

RECURSIVE SumOver(_, _)
SumOver(f, S) ==
    IF S = {} THEN 0
    ELSE LET x == CHOOSE y \in S : TRUE IN f[x] + SumOver(f, S \ {x})

\* combinations_with_replacement(supported_elements, n): the multisets of n
\* elements, each as its count per element.
Patterns(supported, n) ==
    {p \in [supported -> 0..n] : SumOver(p, supported) = n}

\* pattern.count(kind)
PatternCount(p, k) == IF k \in DOMAIN p THEN p[k] ELSE 0

\* A pattern survives unless some composition decorator removes it.
PatternKept(rule, p) ==
    \A d \in Range(get_decorator_objects_by_type(rule)) :
        /\ d.t = "NeighborsExactly" => PatternCount(p, d.k) = d.n
        /\ d.t = "NeighborsAtLeast" => PatternCount(p, d.k) >= d.n
        /\ d.t = "NeighborsAtMost" => PatternCount(p, d.k) <= d.n

RulePatterns(rules, r) ==
    {p \in Patterns(SupportedElements(rules), CountOf(rules[r])) :
        PatternKept(rules[r], p)}

\* rule_matches: (element, pattern) -> the rules matching it.
Matching(rules, key) ==
    {r \in DOMAIN rules :
        ElementOf(rules[r]) = key[1] /\ key[2] \in RulePatterns(rules, r)}

MatchKeys(rules) ==
    UNION {{<<ElementOf(rules[r]), p>> : p \in RulePatterns(rules, r)} :
           r \in DOMAIN rules}

\* Only the patterns matched by multiple rules are considered.
Groups(rules) == {key \in MatchKeys(rules) : Cardinality(Matching(rules, key)) >= 2}

\* The ids named by the Blacklist decorators of a rule.
BlacklistedBy(rule) == UNION {Range(d.ids) : d \in Range(DecsOfType(rule, "Blacklist"))}

\* The DiGraph G of a group: add_edge(rule, blacklisted) for every rule of
\* the group and every id it blacklists; its nodes are the edges' endpoints.
GraphEdges(rules, key) ==
    UNION {{<<r, b>> : b \in BlacklistedBy(rules[r])} : r \in Matching(rules, key)}

GraphNodes(edges) == {e[1] : e \in edges} \cup {e[2] : e \in edges}

\* G after the add_edge calls: the edges, and as nodes their endpoints.
DiGraph(edges) == [nodes |-> GraphNodes(edges), edges |-> edges]

RECURSIVE ReachFrom(_, _)
ReachFrom(S, edges) ==
    LET next == S \cup {e[2] : e \in {x \in edges : x[1] \in S}}
    IN  IF next = S THEN S ELSE ReachFrom(next, edges)

\* nx.descendants(G, node)
Descendants(edges, n) == ReachFrom({n}, edges) \ {n}

\* nx.is_connected(G.to_undirected()), for a graph with a node.
IsConnected(edges) ==
    LET und == edges \cup {<<e[2], e[1]>> : e \in edges}
        n0 == CHOOSE n \in GraphNodes(edges) : TRUE
    IN  ReachFrom({n0}, und) = GraphNodes(edges)

\* Faulty variant of IsDAG: only a rule that blacklists itself counts as a cycle.
IsDAGSelfLoops(edges) == \A n \in GraphNodes(edges) : <<n, n>> \notin edges

\* nx.is_directed_acyclic_graph(G)
IsDAG(edges) ==
    \A n \in GraphNodes(edges) :
        n \notin ReachFrom({e[2] : e \in {x \in edges : x[1] = n}}, edges)

Sinks(edges) == {n \in GraphNodes(edges) : Descendants(edges, n) = {}}

\* The draw_rule_graph calls for one group whose graph has a node.
GroupFlags(rules, key) ==
    LET edges == GraphEdges(rules, key)
    IN  (IF ~IsConnected(edges) THEN {<<"unconnected", key[1], key[2]>>} ELSE {})
        \cup (IF ~IsDAG(edges) THEN {<<"not_DAG", key[1], key[2]>>} ELSE {})
        \cup (IF Cardinality(Sinks(edges)) > 1
              THEN {<<"multiple_sinks", key[1], key[2]>>} ELSE {})

\* ------------------------------------------------------- find_atomtypes
Lists == [wl |-> whitelist, bl |-> blacklist]

\* Faulty variant of ListLen: the blacklist's size is left out of the sums.
ListLenWhitelistOnly(a) == Len(whitelist[a])

\* len(atom.whitelist) + len(atom.blacklist), as added to old_len and new_len.
ListLen(a) == Len(whitelist[a]) + Len(blacklist[a])

HasBucket(rm, a) ==
    /\ kind[a] \in DOMAIN rm
    /\ Cardinality(Neighbors(a)) \in DOMAIN rm[kind[a]]

Bucket(rm, a) == rm[kind[a]][Cardinality(Neighbors(a))]

\* The module-level state, and a compound, a force-field module and a
\* debug flag for the call.
Init ==
    /\ kind \in [Atoms -> Kinds]
    /\ bonds \in AllBonds
    /\ module_rules \in Catalogues
    /\ dict_order \in DictOrders(module_rules)
    /\ debug \in BOOLEAN
    /\ forcefield \in ForceFields
    /\ calls = 1
    /\ rule_number_to_rule = EmptyMap
    /\ rule_map = EmptyMap
    /\ neighbor_types_map = EmptyMap
    /\ whitelist = EmptyMap
    /\ blacklist = EmptyMap
    /\ atomtype = EmptyMap
    /\ log = <<>>
    /\ flags = {}
    /\ todo = {}
    /\ pc = "idle"
    /\ iter_cnt = 0
    /\ ai = 1
    /\ ri = 1
    /\ old_len = 0
    /\ new_len = 0
    /\ round_start = [wl |-> EmptyMap, bl |-> EmptyMap]
    /\ rounds_changed = 0
    /\ applied = {}
    /\ succeeded = {}
    /\ tally_used = {}
    /\ graphs = EmptyMap

\* Lines 21-26: for the force field 'OPLS-AA' the opls_* functions of the
\* module enter rule_number_to_rule; any other name loads nothing.
LoadRules ==
    /\ pc = "idle"
    /\ rule_number_to_rule' =
           IF forcefield = OPLS_AA
           THEN [r \in DOMAIN rule_number_to_rule \cup DOMAIN module_rules |->
                    IF r \in DOMAIN module_rules THEN module_rules[r]
                    ELSE rule_number_to_rule[r]]
           ELSE rule_number_to_rule
    /\ pc' = "build"
    /\ UNCHANGED <<kind, bonds, module_rules, dict_order, debug, forcefield, calls,
                   rule_map, neighbor_types_map, whitelist, blacklist, atomtype,
                   log, flags, todo, iter_cnt, ai, ri, old_len, new_len,
                   round_start, rounds_changed, applied, succeeded,
                   tally_used, graphs>>

\* Line 29, and the test of debug at line 32.
BuildRuleMap ==
    /\ pc = "build"
    /\ LET order == SelectSeq(dict_order, LAMBDA r : r \in DOMAIN rule_number_to_rule)
           built == build_rule_map(rule_map, log, rule_number_to_rule, order)
       IN  /\ rule_map' = built.rm
           /\ log' = built.log
    /\ pc' = IF debug THEN "sanitize" ELSE "prepare"
    /\ ai' = 1
    /\ UNCHANGED <<kind, bonds, module_rules, dict_order, debug, forcefield, calls,
                   rule_number_to_rule, neighbor_types_map, whitelist, blacklist,
                   atomtype, flags, todo, iter_cnt, ri, old_len, new_len,
                   round_start, rounds_changed, applied, succeeded,
                   tally_used, graphs>>

\* sanitize, lines 299-355: the two scans over the rules, which raise or
\* leave rule_matches.
SanitizeScan ==
    /\ pc = "sanitize"
    /\ IF ScanRaises(rule_number_to_rule)
       THEN pc' = "raised" /\ todo' = todo
       ELSE pc' = "groups" /\ todo' = Groups(rule_number_to_rule)
    /\ UNCHANGED <<kind, bonds, module_rules, dict_order, debug, forcefield, calls,
                   rule_number_to_rule, rule_map, neighbor_types_map, whitelist,
                   blacklist, atomtype, log, flags, iter_cnt, ai, ri, old_len,
                   new_len, round_start, rounds_changed, applied, succeeded,
                   tally_used, graphs>>

\* sanitize, lines 358-389, for one key of rule_matches (the dict's items
\* come in any order). nx.is_connected raises on a graph without nodes.
SanitizeGroup ==
    /\ pc = "groups"
    /\ \E key \in todo :
          LET G == DiGraph(GraphEdges(rule_number_to_rule, key))
          IN  /\ graphs' = Put(graphs, key, G)
              /\ IF G.nodes = {}
                 THEN pc' = "raised" /\ UNCHANGED <<todo, flags>>
                 ELSE /\ flags' = flags \cup GroupFlags(rule_number_to_rule, key)
                      /\ todo' = todo \ {key}
                      /\ pc' = pc
    /\ UNCHANGED <<kind, bonds, module_rules, dict_order, debug, forcefield, calls,
                   rule_number_to_rule, rule_map, neighbor_types_map, whitelist,
                   blacklist, atomtype, log, iter_cnt, ai, ri, old_len, new_len,
                   round_start, rounds_changed, applied, succeeded,
                   tally_used>>

\* sanitize returns.
SanitizeDone ==
    /\ pc = "groups"
    /\ todo = {}
    /\ pc' = "prepare"
    /\ ai' = 1
    /\ UNCHANGED <<kind, bonds, module_rules, dict_order, debug, forcefield, calls,
                   rule_number_to_rule, rule_map, neighbor_types_map, whitelist,
                   blacklist, atomtype, log, flags, todo, iter_cnt, ri, old_len,
                   new_len, round_start, rounds_changed, applied, succeeded,
                   tally_used, graphs>>

\* prepare(atom): two empty OrderedSets in the atom's extras.
prepare(lists, a) ==
    [wl |-> Put(lists.wl, a, <<>>), bl |-> Put(lists.bl, a, <<>>)]

\* Lines 36-37, for the next atom that yield_atoms() yields; after the last
\* one, line 39.
PrepareAtom ==
    /\ pc = "prepare"
    /\ LET p == prepare(Lists, atom_order[ai])
       IN  whitelist' = p.wl /\ blacklist' = p.bl
    /\ IF ai = Len(atom_order)
       THEN pc' = "for" /\ ai' = 1 /\ iter_cnt' = 0
       ELSE pc' = pc /\ ai' = ai + 1 /\ iter_cnt' = iter_cnt
    /\ UNCHANGED <<kind, bonds, module_rules, dict_order, debug, forcefield, calls,
                   rule_number_to_rule, rule_map, neighbor_types_map, atomtype,
                   log, flags, todo, ri, old_len, new_len, round_start,
                   rounds_changed, applied, succeeded,
                   tally_used, graphs>>

\* Faulty variant of RangeExhausted: one round too many (range(max_iter + 1)).
RangeExhaustedLate(n) == n >= max_iter + 1

\* range(max_iter) has no further value once max_iter rounds were started.
RangeExhausted(n) == n >= max_iter

\* Line 40: the next round begins (lines 42-43), or the loop's else clause
\* runs (line 67) and the resolution loop follows.
LoopHead ==
    /\ pc = "for"
    /\ IF RangeExhausted(iter_cnt)
       THEN /\ log' = Append(log, Warning("max_iterations", 0, 0))
            /\ pc' = "resolve"
            /\ UNCHANGED <<iter_cnt, old_len, new_len, round_start>>
       ELSE /\ iter_cnt' = iter_cnt + 1
            /\ old_len' = 0
            /\ new_len' = 0
            /\ round_start' = Lists
            /\ pc' = "atoms"
            /\ log' = log
    /\ ai' = 1
    /\ UNCHANGED <<kind, bonds, module_rules, dict_order, debug, forcefield, calls,
                   rule_number_to_rule, rule_map, neighbor_types_map, whitelist,
                   blacklist, atomtype, flags, todo, ri, rounds_changed, applied,
                   succeeded, tally_used, graphs>>

\* Faulty variant of CoverageWarning: every uncovered atom is reported as of
\* an unknown kind.
CoverageWarningKindOnly(rm, a) == Warning("no_rule_for_kind", a, 0)

\* Lines 55-58: the coverage warning for an atom without a bucket.
CoverageWarning(rm, a) ==
    IF kind[a] \in DOMAIN rm
    THEN Warning("no_rule_for_neighbor_count", a, 0)
    ELSE Warning("no_rule_for_kind", a, 0)

\* Lines 44-58 for the next atom: its sizes enter old_len; a port is left
\* at once; an atom with a bucket goes on to its rules; any other atom gets
\* its coverage warning and lines 60-61.
VisitAtom ==
    /\ pc = "atoms"
    /\ ai <= Len(atom_order)
    /\ LET a == atom_order[ai]
       IN  /\ old_len' = old_len + ListLen(a)
           /\ IF IsPort(a)
              THEN /\ ai' = ai + 1
                   /\ UNCHANGED <<pc, ri, new_len, log>>
              ELSE IF HasBucket(rule_map, a)
              THEN /\ pc' = "rules"
                   /\ ri' = 1
                   /\ UNCHANGED <<ai, new_len, log>>
              ELSE /\ log' = Append(log, CoverageWarning(rule_map, a))
                   /\ new_len' = new_len + ListLen(a)
                   /\ ai' = ai + 1
                   /\ UNCHANGED <<pc, ri>>
    /\ UNCHANGED <<kind, bonds, module_rules, dict_order, debug, forcefield, calls,
                   rule_number_to_rule, rule_map, neighbor_types_map, whitelist,
                   blacklist, atomtype, flags, todo, iter_cnt, round_start,
                   rounds_changed, applied, succeeded,
                   tally_used, graphs>>

\* Lines 53-54: run_rule on the next rule of the atom's bucket.
RunRule ==
    /\ pc = "rules"
    /\ ri <= Len(Bucket(rule_map, atom_order[ai]))
    /\ LET a == atom_order[ai]
           r == Bucket(rule_map, a)[ri]
           res == run_rule(rule_number_to_rule,
                           [wl |-> whitelist, bl |-> blacklist,
                            ntm |-> neighbor_types_map], a, r)
       IN  /\ whitelist' = res.st.wl
           /\ blacklist' = res.st.bl
           /\ neighbor_types_map' = res.st.ntm
           /\ applied' = applied \cup {<<a, r>>}
           /\ succeeded' = IF res.ret THEN succeeded \cup {<<a, r>>} ELSE succeeded
           /\ tally_used' =
                  IF ReadsTally(rule_number_to_rule, whitelist, a, r)
                  THEN tally_used \cup {[atom |-> a, tally |-> res.st.ntm[a]]}
                  ELSE tally_used
    /\ ri' = ri + 1
    /\ UNCHANGED <<kind, bonds, module_rules, dict_order, debug, forcefield, calls,
                   rule_number_to_rule, rule_map, atomtype, log, flags, todo, pc,
                   iter_cnt, ai, old_len, new_len, round_start, rounds_changed,
                   graphs>>

\* Lines 60-61, after the last rule of the bucket.
LeaveAtom ==
    /\ pc = "rules"
    /\ ri > Len(Bucket(rule_map, atom_order[ai]))
    /\ new_len' = new_len + ListLen(atom_order[ai])
    /\ ai' = ai + 1
    /\ pc' = "atoms"
    /\ UNCHANGED <<kind, bonds, module_rules, dict_order, debug, forcefield, calls,
                   rule_number_to_rule, rule_map, neighbor_types_map, whitelist,
                   blacklist, atomtype, log, flags, todo, iter_cnt, ri, old_len,
                   round_start, rounds_changed, applied, succeeded,
                   tally_used, graphs>>

\* Faulty variant of NothingChanged: the break is never taken.
NothingChangedNever(o, n) == FALSE

\* Line 64: nothing changed.
NothingChanged(o, n) == o = n

\* Lines 64-65, after the last atom of the round: break, or the next round.
EndRound ==
    /\ pc = "atoms"
    /\ ai > Len(atom_order)
    /\ pc' = IF NothingChanged(old_len, new_len) THEN "resolve" ELSE "for"
    /\ rounds_changed' = IF Lists # round_start THEN rounds_changed + 1
                         ELSE rounds_changed
    /\ ai' = 1
    /\ UNCHANGED <<kind, bonds, module_rules, dict_order, debug, forcefield, calls,
                   rule_number_to_rule, rule_map, neighbor_types_map, whitelist,
                   blacklist, atomtype, log, flags, todo, iter_cnt, ri, old_len,
                   new_len, round_start, applied, succeeded,
                   tally_used, graphs>>

\* Faulty variant of Candidates: the blacklist is ignored.
CandidatesWhitelistOnly(wl, bl) == wl

\* Lines 70-71: the whitelist without the blacklisted ids, as a list.
Candidates(wl, bl) == OsDiff(wl, bl)

\* Lines 73-78: what extras['atomtype'] becomes. A list of one id for a
\* single candidate; otherwise the candidates joined into one string.
Resolved(c) ==
    IF Len(c) = 1 THEN [single |-> TRUE, types |-> <<c[1]>>]
    ELSE [single |-> FALSE, types |-> c]

\* Lines 69-78 for the next atom of compound.atoms; past the last one,
\* find_atomtypes returns.
ResolveAtom ==
    /\ pc = "resolve"
    /\ IF ai > Len(RealAtoms)
       THEN pc' = "done" /\ UNCHANGED <<atomtype, log, ai>>
       ELSE LET a == RealAtoms[ai]
                c == Candidates(whitelist[a], blacklist[a])
            IN  /\ atomtype' = Put(atomtype, a, Resolved(c))
                /\ log' = IF Len(c) = 1 THEN log
                          ELSE Append(log, Warning("check_topology", a, 0))
                /\ ai' = ai + 1
                /\ pc' = pc
    /\ UNCHANGED <<kind, bonds, module_rules, dict_order, debug, forcefield, calls,
                   rule_number_to_rule, rule_map, neighbor_types_map, whitelist,
                   blacklist, flags, todo, iter_cnt, ri, old_len, new_len,
                   round_start, rounds_changed, applied, succeeded,
                   tally_used, graphs>>

Next ==
    \/ LoadRules
    \/ BuildRuleMap
    \/ SanitizeScan
    \/ SanitizeGroup
    \/ SanitizeDone
    \/ PrepareAtom
    \/ LoopHead
    \/ VisitAtom
    \/ RunRule
    \/ LeaveAtom
    \/ EndRound
    \/ ResolveAtom

Spec == Init /\ [][Next]_vars

\* The caller calls find_atomtypes again in the same process, after the
\* previous call returned or raised: the same atoms, whose bonds may have
\* changed, and new arguments. The module globals (lines 12-16) and the
\* atoms' extras are what the previous call left.
MaxCalls == 2

CallAgain ==
    /\ pc \in {"done", "raised"}
    /\ calls < MaxCalls
    /\ calls' = calls + 1
    /\ bonds' \in AllBonds
    /\ forcefield' \in ForceFields
    /\ debug' \in BOOLEAN
    /\ pc' = "idle"
    /\ log' = <<>>
    /\ flags' = {}
    /\ todo' = {}
    /\ iter_cnt' = 0
    /\ ai' = 1
    /\ ri' = 1
    /\ old_len' = 0
    /\ new_len' = 0
    /\ round_start' = [wl |-> EmptyMap, bl |-> EmptyMap]
    /\ rounds_changed' = 0
    /\ applied' = {}
    /\ succeeded' = {}
    /\ tally_used' = {}
    /\ graphs' = EmptyMap
    /\ UNCHANGED <<kind, module_rules, dict_order, rule_number_to_rule, rule_map,
                   neighbor_types_map, whitelist, blacklist, atomtype>>

NextCalls ==
    \/ Next
    \/ CallAgain

SpecCalls == Init /\ [][NextCalls]_vars

\* ----------------------------------------------------------- properties
InRounds == pc \in {"for", "atoms", "rules"}

AtRoundEnd == pc = "atoms" /\ ai > Len(atom_order)

RealAtomSet == {a \in Atoms : ~IsPort(a)}

CandidateSet(a) == Range(whitelist[a]) \ Range(blacklist[a])

CountWarnings(w) == Cardinality({i \in DOMAIN log : log[i].w = w})

WarnedAbout(w, a) == \E i \in DOMAIN log : log[i].w = w /\ log[i].atom = a

\* A full round (lines 44-61) from the state st, as a function of the
\* registry rm and of the order in which the atoms are visited.
RECURSIVE RulesFrom(_, _, _, _)
RulesFrom(st, rm, a, j) ==
    IF j > Len(Bucket(rm, a)) THEN st
    ELSE RulesFrom(run_rule(rule_number_to_rule, st, a, Bucket(rm, a)[j]).st,
                   rm, a, j + 1)

RECURSIVE AtomsFrom(_, _, _, _)
AtomsFrom(st, rm, order, i) ==
    IF i > Len(order) THEN st
    ELSE LET a == order[i]
         IN  AtomsFrom(IF kind[a] # PORT /\ HasBucket(rm, a)
                       THEN RulesFrom(st, rm, a, 1) ELSE st, rm, order, i + 1)

OneMoreRound ==
    LET st == AtomsFrom([wl |-> whitelist, bl |-> blacklist,
                         ntm |-> neighbor_types_map], rule_map, atom_order, 1)
    IN  [wl |-> st.wl, bl |-> st.bl]

TotalLen(st) == SeqSum([i \in 1..NAtoms |-> Len(st.wl[i]) + Len(st.bl[i])])

\* The rounds of a whole run (lines 40-65) from round n on.
RECURSIVE RoundsFrom(_, _, _, _)
RoundsFrom(st, rm, order, n) ==
    IF n >= max_iter THEN st
    ELSE LET st2 == AtomsFrom(st, rm, order, 1)
         IN  IF TotalLen(st2) = TotalLen(st) THEN st2
             ELSE RoundsFrom(st2, rm, order, n + 1)

\* The lists a run of the same catalogue on the same compound ends with when
\* the atoms are visited in the order ao and the dict iterates in the order do.
RunWithOrders(ao, do) ==
    RoundsFrom([wl |-> [a \in Atoms |-> <<>>], bl |-> [a \in Atoms |-> <<>>],
                ntm |-> EmptyMap],
               build_rule_map(EmptyMap, <<>>, rule_number_to_rule,
                              SelectSeq(do, LAMBDA r : r \in DOMAIN rule_number_to_rule)).rm,
               ao, 0)

\* The position of the call in the round loop: round, atom, rule.
LoopPosition ==
    CASE pc = "for" -> <<iter_cnt, Len(atom_order) + 2, 0>>
      [] pc = "atoms" -> <<iter_cnt, ai, 0>>
      [] pc = "rules" -> <<iter_cnt, ai, ri>>
      [] OTHER -> <<0, 0, 0>>

LexLess(p, q) ==
    \/ p[1] < q[1]
    \/ p[1] = q[1] /\ p[2] < q[2]
    \/ p[1] = q[1] /\ p[2] = q[2] /\ p[3] < q[3]

\* C1: find_atomtypes starts at most max_iter (10) rounds and never loops
\* unboundedly: in the round loop a next step always exists, every step
\* either advances the bounded position (round, atom, rule) or enters the
\* resolution loop; and the resolution loop is entered only after a round that
\* left the summed sizes unchanged or after the 10th round.
C1_Bounded ==
    /\ iter_cnt <= max_iter
    /\ pc = "atoms" => ai <= Len(atom_order) + 1
    /\ pc = "rules" => ri <= Len(Bucket(rule_map, atom_order[ai])) + 1
    /\ InRounds => ENABLED Next
    /\ pc \in {"resolve", "done"} =>
          NothingChanged(old_len, new_len) \/ iter_cnt = max_iter

C1_RoundCapThenResolution ==
    /\ []C1_Bounded
    /\ [][InRounds =>
            \/ InRounds' /\ LexLess(LoopPosition, LoopPosition')
            \/ pc' = "resolve"]_vars

C1_Witness ==
    pc = "resolve" /\ iter_cnt = max_iter /\ ~NothingChanged(old_len, new_len)

\* C2: in the rounds and the resolution loop of a run, no step removes an
\* identifier from any atom's whitelist or blacklist.
C2_ListsOnlyGrow ==
    [][(InRounds \/ pc = "resolve") =>
          \A a \in DOMAIN whitelist :
              /\ a \in DOMAIN whitelist' /\ a \in DOMAIN blacklist'
              /\ Range(whitelist[a]) \subseteq Range(whitelist'[a])
              /\ Range(blacklist[a]) \subseteq Range(blacklist'[a])]_vars

C2_Witness ==
    /\ iter_cnt >= 2
    /\ \E a \in DOMAIN whitelist : Len(whitelist[a]) >= 2 /\ Len(blacklist[a]) >= 2

\* C3: at the end of a round the loop is left by the break exactly when the
\* round changed no whitelist and no blacklist, and the lists are then a
\* fixed point: one more full round over all atoms leaves every list as it is.
C3_StopIffUnchanged ==
    /\ [][AtRoundEnd => ((pc' = "resolve") <=> (Lists = round_start))]_vars
    /\ [](pc = "resolve" /\ NothingChanged(old_len, new_len) => OneMoreRound = Lists)

C3_Witness ==
    /\ pc = "resolve"
    /\ NothingChanged(old_len, new_len)
    /\ iter_cnt >= 3
    /\ \E a \in DOMAIN blacklist : blacklist[a] # <<>>

\* C4: an atom the resolution loop has handled has a single resolved type
\* exactly when its whitelist minus its blacklist has one identifier, which is
\* then its type; otherwise it was warned about and holds exactly the
\* remaining candidates; and every real atom is handled by the end.
C4_Resolution ==
    /\ \A a \in DOMAIN atomtype :
          /\ atomtype[a].single <=> Cardinality(CandidateSet(a)) = 1
          /\ atomtype[a].single =>
                /\ Len(atomtype[a].types) = 1
                /\ CandidateSet(a) = {atomtype[a].types[1]}
                /\ atomtype[a].types[1] \in Range(whitelist[a])
                /\ atomtype[a].types[1] \notin Range(blacklist[a])
          /\ ~atomtype[a].single =>
                /\ Range(atomtype[a].types) = CandidateSet(a)
                /\ WarnedAbout("check_topology", a)
          /\ atomtype[a].single => ~WarnedAbout("check_topology", a)
    /\ pc = "done" => DOMAIN atomtype = RealAtomSet

C4_Witness ==
    /\ pc = "done"
    /\ \E a, b \in DOMAIN atomtype :
          /\ atomtype[a].single /\ blacklist[a] # <<>>
          /\ ~atomtype[b].single

\* C5: the final whitelist minus blacklist of every real atom is the same
\* for every order of visiting the atoms and every iteration order of the
\* catalogue, cross-naming whitelist effects included.
C5_OrderIndependent ==
    pc = "done" =>
        \A ao \in Perms(Atoms), do \in DictOrders(module_rules) :
            LET st == RunWithOrders(ao, do)
            IN  \A a \in RealAtomSet :
                    CandidateSet(a) = Range(st.wl[a]) \ Range(st.bl[a])

Ports == {a \in Atoms : kind[a] = PORT}

AppliedTo(a) == {x \in applied : x[1] = a}

WarningsAbout(a) == {i \in DOMAIN log : log[i].atom = a}

Typing == InRounds \/ pc \in {"resolve", "done"}

\* The rounds in which atom a has been visited so far.
Visits(a) ==
    IF pc \in {"atoms", "rules"} /\ ai <= a THEN iter_cnt - 1 ELSE iter_cnt

CoverageWarningsAbout(a, w) ==
    Cardinality({i \in DOMAIN log : log[i].atom = a /\ log[i].w = w})

\* C7: a real atom whose kind has no registry entry, or whose neighbor count
\* has no bucket under its kind, gets the corresponding coverage warning in
\* every round that visits it, is never given to run_rule, keeps an empty
\* whitelist and blacklist and never gets a single resolved type, while every
\* atom with a bucket has all its bucket's rules applied and every real atom
\* is resolved.
C7_UncoveredAtoms ==
    Typing =>
        /\ \A a \in RealAtomSet :
              ~HasBucket(rule_map, a) =>
                  /\ whitelist[a] = <<>> /\ blacklist[a] = <<>>
                  /\ AppliedTo(a) = {}
                  /\ CoverageWarningsAbout(a,
                         IF kind[a] \in DOMAIN rule_map
                         THEN "no_rule_for_neighbor_count"
                         ELSE "no_rule_for_kind") = Visits(a)
                  /\ CoverageWarningsAbout(a,
                         IF kind[a] \in DOMAIN rule_map
                         THEN "no_rule_for_kind"
                         ELSE "no_rule_for_neighbor_count") = 0
                  /\ a \in DOMAIN atomtype => ~atomtype[a].single
        /\ pc \in {"resolve", "done"} =>
              \A b \in RealAtomSet :
                  HasBucket(rule_map, b) =>
                      \A r \in Range(Bucket(rule_map, b)) : <<b, r>> \in applied
        /\ pc = "done" => DOMAIN atomtype = RealAtomSet

\* An atom of a kind without rules beside an atom that got its rules.
C7_Witness ==
    /\ pc = "done"
    /\ \E a, c \in RealAtomSet :
          /\ kind[a] \notin DOMAIN rule_map
          /\ WarnedAbout("no_rule_for_kind", a)
          /\ AppliedTo(c) # {}
          /\ whitelist[c] # <<>>

\* C8: the convergence-failure warning is emitted at most once, and the
\* loop is left with it exactly when each of max_iter rounds changed some
\* list; it is never emitted after a round that changed nothing; either way
\* every real atom is resolved.
C8_ConvergenceWarning ==
    /\ CountWarnings("max_iterations") <= 1
    /\ pc \in {"resolve", "done"} =>
          (CountWarnings("max_iterations") = 1 <=> rounds_changed = max_iter)
    /\ CountWarnings("max_iterations") = 1 =>
          iter_cnt = max_iter /\ rounds_changed = iter_cnt
    /\ pc = "done" => DOMAIN atomtype = RealAtomSet

C8_Witness ==
    /\ pc = "done"
    /\ CountWarnings("max_iterations") = 1
    /\ \E a \in DOMAIN atomtype : TRUE

\* C9: run_rule on an atom and a rule that already returned True on that
\* atom leaves the atom's whitelist and blacklist as they are, and run_rule
\* with a rule whose id is in the atom's whitelist changes nothing at all.
C9_ReapplyChangesNothing ==
    [][pc = "rules" /\ ri <= Len(Bucket(rule_map, atom_order[ai])) =>
          LET a == atom_order[ai]
              r == Bucket(rule_map, a)[ri]
          IN  /\ <<a, r>> \in succeeded =>
                    whitelist' = whitelist /\ blacklist' = blacklist
              /\ r \in Range(whitelist[a]) =>
                    /\ whitelist' = whitelist /\ blacklist' = blacklist
                    /\ neighbor_types_map' = neighbor_types_map]_vars

\* A rule that returned True in an earlier round has just been called again.
C9_Witness ==
    /\ pc = "rules" /\ ri > 1 /\ iter_cnt >= 3
    /\ LET a == atom_order[ai]
           r == Bucket(rule_map, a)[ri - 1]
       IN  /\ <<a, r>> \in succeeded
           /\ r \notin Range(whitelist[a])
           /\ blacklist[a] # <<>>

\* sanitize has ended, by returning or by raising.
SanitizeEnded == debug /\ pc \notin {"idle", "build", "sanitize", "groups"}

\* No rule of the group blacklists another rule of the group.
NoEdgeInGroup(key) ==
    \A r, q \in Matching(rule_number_to_rule, key) :
        r # q => q \notin BlacklistedBy(rule_number_to_rule[r])

\* C10: once sanitize has ended, every group of two or more rules among which
\* no rule blacklists another has been flagged as not connected.
C10_DisconnectedFlagged ==
    SanitizeEnded =>
        \A key \in Groups(rule_number_to_rule) :
            NoEdgeInGroup(key) => <<"unconnected", key[1], key[2]>> \in flags

\* The groups sanitize has checked so far (lines 358-389 done for them).
Analysed ==
    IF debug /\ pc \notin {"idle", "build", "sanitize"}
             /\ ~ScanRaises(rule_number_to_rule)
    THEN Groups(rule_number_to_rule) \ todo
    ELSE {}

\* The blacklist relation among the rules of a group has a cycle.
HasCycle(key) ==
    LET grp == Matching(rule_number_to_rule, key)
        rel == {e \in GraphEdges(rule_number_to_rule, key) : e[2] \in grp}
    IN  \E r \in grp : r \in ReachFrom({e[2] : e \in {x \in rel : x[1] = r}}, rel)

GroupSinks(key) ==
    {r \in Matching(rule_number_to_rule, key) :
        BlacklistedBy(rule_number_to_rule[r]) \ {r} = {}}

\* C12: a group the analyzer has checked is flagged for multiple sinks
\* exactly when more than one of its rules is a sink.
C12_MultipleSinksFlagged ==
    \A key \in Analysed :
        <<"multiple_sinks", key[1], key[2]>> \in flags
            <=> Cardinality(GroupSinks(key)) > 1

\* The places of rule_map that hold the id r: element, count, position.
RegistryPlaces(r) ==
    UNION {UNION {{<<e, c, i>> : i \in {j \in DOMAIN rule_map[e][c] :
                                            rule_map[e][c][j] = r}} :
                  c \in DOMAIN rule_map[e]} :
           e \in DOMAIN rule_map}

\* C13: once build_rule_map has run in a call of find_atomtypes, whatever
\* calls came before, every rule id is in the registry exactly once.
C13_RegisteredOnce ==
    pc \notin {"idle", "build"} =>
        \A r \in DOMAIN rule_number_to_rule : Cardinality(RegistryPlaces(r)) = 1

\* The rule has no Element decorator or no NeighborCount decorator.
MissingGuard(rule) ==
    DecsOfType(rule, "Element") = <<>> \/ DecsOfType(rule, "NeighborCount") = <<>>

\* build_rule_map warned that rule r has no element type or no neighbor count.
GuardWarned(r) ==
    \E i \in DOMAIN log :
        log[i].rule = r /\ log[i].w \in {"no_element_type", "no_neighbor_count"}

\* C14: once the registry is built, a rule that lacks an element guard or a
\* neighbor-count guard has been warned about and is under no key of the
\* registry, and a rule with both guards (a neighbor count of 0 included) is
\* indexed and has not been warned about.
C14_MissingGuardsExcluded ==
    pc \notin {"idle", "build"} =>
        \A r \in DOMAIN rule_number_to_rule :
            IF MissingGuard(rule_number_to_rule[r])
            THEN GuardWarned(r) /\ RegistryPlaces(r) = {}
            ELSE ~GuardWarned(r) /\ RegistryPlaces(r) # {}

\* C15: a call of find_atomtypes with a force field other than 'OPLS-AA'
\* fails before anything is done: it never leaves its first line but by
\* raising, so it builds no registry, allocates no list, applies no rule and
\* assigns no atomtype.
C15_UnsupportedForceFieldFails ==
    forcefield # OPLS_AA => pc \in {"idle", "raised"} /\ applied = {}

\* The ids named by the Whitelist and Blacklist decorators of a rule.
EffectIds(rule) ==
    UNION {Range(d.ids) : d \in Range(DecsOfType(rule, "Whitelist"))}
        \cup BlacklistedBy(rule)

\* C16: no id outside the catalogue is ever in a whitelist or a blacklist, and
\* no rule whose effects name such an id ever completes on an atom (the run
\* fails at that point instead).
C16_UnknownIdsRejected ==
    /\ \A a \in DOMAIN whitelist :
           Range(whitelist[a]) \subseteq DOMAIN rule_number_to_rule
    /\ \A a \in DOMAIN blacklist :
           Range(blacklist[a]) \subseteq DOMAIN rule_number_to_rule
    /\ \A p \in succeeded :
           EffectIds(rule_number_to_rule[p[2]]) \subseteq DOMAIN rule_number_to_rule

\* C17: every tally a composition guard has read in the current call of
\* find_atomtypes is the count per kind of the atom's bonded neighbours,
\* according to the compound's bonds in that call.
C17_TallyOfTheRun ==
    \A u \in tally_used : u.tally = Tally(u.atom)

\* The number of neighbours of a that are of kind k.
KindCount(a, k) == Cardinality({b \in Neighbors(a) : kind[b] = k})

\* The comparison a composition decorator stands for, on a count c.
Compares(d, c) ==
    CASE d.t = "NeighborsExactly" -> c = d.n
      [] d.t = "NeighborsAtLeast" -> c >= d.n
      [] d.t = "NeighborsAtMost"  -> c <= d.n

CompositionTypes == {"NeighborsExactly", "NeighborsAtLeast", "NeighborsAtMost"}

\* C18: whenever a rule is about to be run on an atom, each of its
\* composition guards holds on the atom's tally exactly when the number of
\* the atom's neighbours of the guard's kind, 0 when there is none, satisfies
\* the guard's comparison.
C18_CompositionGuards ==
    (pc = "rules" /\ ri <= Len(Bucket(rule_map, atom_order[ai]))) =>
        LET a == atom_order[ai]
            r == Bucket(rule_map, a)[ri]
        IN  \A d \in Range(rule_number_to_rule[r].decs) :
                d.t \in CompositionTypes =>
                    (CompositionHolds(d, neighbor_types(neighbor_types_map, a)[a])
                        <=> Compares(d, KindCount(a, d.k)))

\* What a guard decorator requires of the atom; an effect decorator
\* requires nothing.
GuardSucceeds(d, a) ==
    CASE d.t = "Element" -> kind[a] = d.k
      [] d.t = "NeighborCount" -> Cardinality(Neighbors(a)) = d.n
      [] d.t \in CompositionTypes -> Compares(d, KindCount(a, d.k))
      [] OTHER -> TRUE

\* C19: when run_rule is given an atom and a rule, the atom's whitelist or
\* blacklist changes only if every guard of the rule's stack succeeds on the
\* atom and the rule's body accepts it, wherever in the stack the effects
\* stand; if some guard fails both lists stay as they are.
C19_EffectsNeedAllGuards ==
    [][pc = "rules" /\ ri <= Len(Bucket(rule_map, atom_order[ai])) =>
          LET a == atom_order[ai]
              r == Bucket(rule_map, a)[ri]
              rule == rule_number_to_rule[r]
          IN  (whitelist'[a] # whitelist[a] \/ blacklist'[a] # blacklist[a]) =>
                  /\ \A d \in Range(rule.decs) : GuardSucceeds(d, a)
                  /\ BodyHolds(rule.body, whitelist, a)]_vars

\* A rule whose stack has an effect outside a guard has just been run on an
\* atom on which that guard fails, and the atom's lists are empty.
C19_Witness ==
    /\ pc = "rules" /\ ri > 1
    /\ LET a == atom_order[ai]
           r == Bucket(rule_map, a)[ri - 1]
           decs == rule_number_to_rule[r].decs
       IN  /\ <<a, r>> \in applied
           /\ \E i, j \in DOMAIN decs :
                  /\ i < j
                  /\ decs[i].t \in {"Whitelist", "Blacklist"}
                  /\ ~GuardSucceeds(decs[j], a)
           /\ whitelist[a] = <<>>
           /\ blacklist[a] = <<>>

\* The rule has two Element decorators or two NeighborCount decorators.
HasDuplicateGuard(rule) ==
    \/ Len(DecsOfType(rule, "Element")) > 1
    \/ Len(DecsOfType(rule, "NeighborCount")) > 1

DuplicateRules ==
    {r \in DOMAIN rule_number_to_rule : HasDuplicateGuard(rule_number_to_rule[r])}

\* The catalogue without its rules that have a duplicate guard.
WithoutDuplicates ==
    [r \in DOMAIN rule_number_to_rule \ DuplicateRules |-> rule_number_to_rule[r]]

\* C20, as claimed: once the registry is built a rule with a duplicate guard
\* is under no key of it, and the analyzer's scans raise only if they would
\* raise on the remaining rules alone.
C20_DuplicateGuardsNonFatal ==
    pc \notin {"idle", "build"} =>
        /\ \A r \in DuplicateRules : RegistryPlaces(r) = {}
        /\ (pc = "raised" /\ ScanRaises(rule_number_to_rule))
               => ScanRaises(WithoutDuplicates)

\* C20, amended: when the analyzer runs on a catalogue with a rule that has a
\* duplicate guard, find_atomtypes ends by raising from the analyzer's scans:
\* no group is checked, no list is allocated and no atomtype assigned, and the
\* offending rule is in the registry like every other rule. A call that does
\* not run the analyzer never raises.
C20_DuplicateGuardsFatal ==
    /\ (debug /\ DuplicateRules # {} /\ pc \notin {"idle", "build", "sanitize"}) =>
           /\ pc = "raised"
           /\ flags = {}
           /\ whitelist = EmptyMap
           /\ atomtype = EmptyMap
           /\ \A r \in DOMAIN rule_number_to_rule : RegistryPlaces(r) # {}
    /\ ~debug => pc # "raised"

\* The analyzer has raised on a catalogue with a duplicate guard, whose
\* rule is in the registry.
C20_Witness ==
    /\ debug
    /\ pc = "raised"
    /\ \E r \in DuplicateRules : RegistryPlaces(r) # {}
    /\ DOMAIN rule_number_to_rule \ DuplicateRules # {}

\* C21: the graph the analyzer has built for a group has exactly the rules
\* of the group as its nodes, and an edge from A to B exactly when A and B
\* are rules of the group and a Blacklist decorator of A names B.
C21_GraphIsTheGroup ==
    \A key \in DOMAIN graphs :
        LET grp == Matching(rule_number_to_rule, key)
        IN  /\ graphs[key].nodes = grp
            /\ graphs[key].edges =
                   {e \in grp \X grp : e[2] \in BlacklistedBy(rule_number_to_rule[e[1]])}

\* Every atom has a whitelist and a blacklist, and both are empty.
ListsEmpty ==
    \A a \in Atoms :
        /\ a \in DOMAIN whitelist /\ whitelist[a] = <<>>
        /\ a \in DOMAIN blacklist /\ blacklist[a] = <<>>

\* No atom has an id in a whitelist or in a blacklist.
NoListState ==
    /\ \A a \in DOMAIN whitelist : whitelist[a] = <<>>
    /\ \A a \in DOMAIN blacklist : blacklist[a] = <<>>

\* C22: when the first round of a call of find_atomtypes is about to begin,
\* every atom's whitelist and blacklist are empty, whatever an earlier call
\* left; and once find_atomtypes has returned no atom holds an id in its
\* whitelist or blacklist.
C22_ListsScopedToRun ==
    /\ (pc = "for" /\ iter_cnt = 0) => ListsEmpty
    /\ pc = "done" => NoListState

\* The atoms whose sizes the current round has added to old_len so far.
Counted == IF pc = "rules" THEN ai ELSE ai - 1

\* The sizes the atoms' lists had when the current round began.
StartSizes ==
    [i \in 1..Len(atom_order) |->
        Len(round_start.wl[atom_order[i]]) + Len(round_start.bl[atom_order[i]])]

\* C23: a run_rule step on an atom leaves the whitelist and the blacklist of
\* every other atom, the registry and the rule catalogue as they are; and
\* while a round is in progress old_len is the sum, over the atoms visited so
\* far, of the sizes their lists had when the round began.
C23_OnlyOwnLists ==
    /\ [][pc = "rules" /\ ri <= Len(Bucket(rule_map, atom_order[ai])) =>
             /\ \A b \in Atoms \ {atom_order[ai]} :
                    whitelist'[b] = whitelist[b] /\ blacklist'[b] = blacklist[b]
             /\ DOMAIN whitelist' = DOMAIN whitelist
             /\ DOMAIN blacklist' = DOMAIN blacklist
             /\ rule_map' = rule_map
             /\ rule_number_to_rule' = rule_number_to_rule]_vars
    /\ [](pc \in {"atoms", "rules"} =>
             old_len = SeqSum(SubSeq(StartSizes, 1, Counted)))

\* A round ends in which a rule that reads a neighbour's whitelist succeeded
\* and some list grew after sizes had been counted.
C23_Witness ==
    /\ AtRoundEnd
    /\ Lists # round_start
    /\ old_len > 0
    /\ new_len > old_len
    /\ \E p \in succeeded : rule_number_to_rule[p[2]].body.b = "nbr"

====
